---- MODULE Spec2Model ----
(***************************************************************************)
(* Model of the chat transport server:                                     *)
(*   server/server.py         ws_chat (session loop), get_history          *)
(*   server/strands_agent.py  StrandsAgentEngine.generate_stream           *)
(*   server/db.py             DBStore                                      *)
(*                                                                         *)
(* Optional values (Python None or a value) are sequences of length 0 or   *)
(* 1: <<>> is None, <<v>> is v.  Times are naturals counted in ticks of    *)
(* half a microsecond, so that the rounding done by                        *)
(* datetime.fromtimestamp is visible; the heartbeat reads the same clock   *)
(* in whole seconds (time).                                                *)
(*                                                                         *)
(* Specifications:                                                         *)
(*   Spec        one connection of ws_chat, within the heartbeat window    *)
(*   SpecHb      ws_chat with its heartbeat task and the passing seconds   *)
(*   SpecTask    ws_chat and the end of its heartbeat task                 *)
(*   SpecShared  ws_chat on a conversation other connections append to     *)
(*   SpecEngine  generate_stream on its own                                *)
(*   SpecStore   DBStore.append and a client paging through /history       *)
(*   SpecLog     DBStore.append, history and history_grouped_by_day        *)
(*   SpecConc    DBStore called by two callers at once                     *)
(***************************************************************************)
EXTENDS Integers, Sequences, FiniteSets, TLC

VARIABLES
    \* ---- DBStore (db.py) ----
    conversations,   \* rows of table conversations: set of [id, title, created_at]
    messages,        \* rows of table messages, in insertion order; messages[i].id = i
    now,             \* the wall clock read by time.time() / utcnow()
    nextUuid,        \* the next value uuid.uuid4() returns
    \* ---- ws_chat (server.py), one connection ----
    pc,              \* "recv": awaiting ws.receive_text(); "stream": inside async for; "closed"
    inbox,           \* frames the client has sent and ws_chat has not received yet
    connected,       \* FALSE once the client has gone away
    out,             \* frames delivered to the client, oldest first
    cancel,          \* cancel.is_set() of the asyncio.Event bound to local `cancel`
    chunks,          \* local `chunks`
    session_id,      \* local `session_id` (Optional[str])
    \* ---- generate_stream (strands_agent.py), the call in progress ----
    gen_status,      \* "idle" | "running" | "done" | "cancelled" | "raised"
    last_user,       \* local `last_user`
    tried_refresh,   \* local `tried_refresh`
    attempts,        \* number of _stream_once calls made by this generate_stream call
    rebuilds,        \* number of _build_agent calls made by this generate_stream call
    attemptDeltas,   \* visible deltas the backend produced in the current attempt
    nEvents,         \* backend events the engine has consumed so far
    err,             \* error code of the exception generate_stream raised (Optional)
    retriedOn,       \* error code that made this call rebuild the agent (Optional)
    \* ---- observation of the run ----
    clientSent,      \* number of frames the client has sent
    started,         \* number of streams started (start frames attempted)
    ended,           \* number of streams that left the async for loop
    streamFrames,    \* frames delivered for the latest stream, from its start frame on
    streamEnd,       \* how the latest stream ended: "none" | "normal" | "cancelled" | "error"
    cancelAt,        \* <<k>>: the client sent a cancel frame mid-stream after k chunks
    persisted,       \* TRUE iff an assistant message was appended for the latest stream
    storeAtRecv,     \* the messages table when the latest frame was received
    lastFrame,       \* kind of the latest frame ws_chat received (Optional)
    errorsAtRecv,    \* number of error frames in out when the latest frame was received
    cancelAtStart,   \* cancel.is_set() when generate_stream was last called
    \* ---- a client paging through /history ----
    walk,
    \* ---- concurrent callers of DBStore ----
    txn,             \* per caller: the open database session, <<>> when none
    reply,           \* what the latest DBStore call returned
    \* ---- the heartbeat of ws_chat (server.py) ----
    time,            \* the wall clock read by time.time(), in whole seconds
    last_ping,       \* ws_chat's local last_ping
    hb_task,         \* the heartbeat task: "running" | "finished" | "cancelled"
    clientPingAt,    \* when the client last sent a ping (accept time if never)
    hbGap,           \* <<g>>: the latest heartbeat went out g seconds after clientPingAt
    \* ---- more of what has been observed ----
    lostInStream,    \* TRUE iff the client went away while a stream was in flight
    userTurn,        \* <<id>>: row id of the user turn of the latest stream
    otherAppends     \* rows appended by other connections

storeVars   == <<conversations, messages, now, nextUuid>>
sessionVars == <<pc, inbox, connected, out, cancel, chunks, session_id>>
genVars     == <<gen_status, last_user, tried_refresh, attempts, rebuilds,
                 attemptDeltas, nEvents, err, retriedOn>>
obsVars     == <<clientSent, started, ended, streamFrames, streamEnd, cancelAt,
                 persisted, storeAtRecv, lastFrame, errorsAtRecv, cancelAtStart>>
concVars    == <<txn, reply>>
httpVars    == <<walk, concVars>>
hbVars      == <<time, last_ping, hb_task, clientPingAt, hbGap>>
shareVars   == <<lostInStream, userTurn, otherAppends>>
vars        == <<storeVars, sessionVars, genVars, obsVars, httpVars, hbVars, shareVars>>

----------------------------------------------------------------------------
\* Bounds of the model

MaxFrames == 2      \* frames one client sends on its connection
MaxInbox  == 1      \* frames waiting in the connection, sent and not yet received
MaxEvents == 2      \* events the backend delivers to the engine, over all its streams
MaxTs     == 2      \* largest timestamp passed to DBStore.append directly
MaxMsgs   == 3      \* rows appended through the DBStore API directly
MaxPage   == 2      \* largest page_size / limit tried
MaxConvs  == 2      \* uuids DBStore issues
MaxConcMsgs == 2    \* rows appended by concurrent callers
MaxTime   == 27     \* seconds the heartbeat task is followed for
MaxOther  == 1      \* rows other connections append to the session's conversation

\* Length of a UTC day in microseconds, scaled down from 86400 * 10^6 so that
\* small timestamps fall on different days.
MicrosPerDay == 2

Deltas     == {"a", "b"}
Texts      == {"hi"}
Timestamps == 0..MaxTs

None == <<>>
Some(v) == <<v>>

----------------------------------------------------------------------------
\* Sequence helpers

Take(s, n) == SubSeq(s, 1, IF n < Len(s) THEN n ELSE Len(s))

\* a join that puts every later piece in front
RECURSIVE ConcatReversed(_)
ConcatReversed(ss) == IF ss = <<>> THEN "" ELSE ConcatReversed(Tail(ss)) \o Head(ss)

RECURSIVE Concat(_)
Concat(ss) == IF ss = <<>> THEN "" ELSE Head(ss) \o Concat(Tail(ss))

----------------------------------------------------------------------------
\* DBStore (db.py)

\* datetime.fromtimestamp(ts, tz=utc): the float is rounded to whole
\* microseconds, half to even.  ts is in half-microsecond ticks.
ToCreatedAt(ts) ==
    LET k == ts \div 2
    IN  IF ts % 2 = 0 THEN k
        ELSE IF k % 2 = 0 THEN k ELSE k + 1

\* utcnow(): the clock, to the microsecond
UtcNow == now \div 2


\* r.created_at.astimezone(timezone.utc).date().isoformat(): the UTC day
Day(r) == r.created_at \div MicrosPerDay

ConvIds == {c.id : c \in conversations}

\* (created_at asc, id desc): the tie-break turned round
OlderIdDesc(a, b) ==
    \/ a.created_at < b.created_at
    \/ a.created_at = b.created_at /\ a.id > b.id

\* (created_at, id) ascending
Older(a, b) ==
    \/ a.created_at < b.created_at
    \/ a.created_at = b.created_at /\ a.id < b.id

RECURSIVE SortAsc(_)
SortAsc(S) ==
    IF S = {} THEN <<>>
    ELSE LET m == CHOOSE x \in S : \A y \in S \ {x} : Older(x, y)
         IN  <<m>> \o SortAsc(S \ {m})

RECURSIVE SortDesc(_)
SortDesc(S) ==
    IF S = {} THEN <<>>
    ELSE LET m == CHOOSE x \in S : \A y \in S \ {x} : Older(y, x)
         IN  <<m>> \o SortDesc(S \ {m})

ConvRows(sid) == {messages[i] : i \in {j \in 1..Len(messages) : messages[j].conversation_id = sid}}

\* DBStore.get_or_create: `sid = session_id or str(uuid.uuid4())`, the row is
\* added if absent.  Returns the sid; the rows after the call are
\* GetOrCreateRows.
\* `sid = str(uuid.uuid4())`: the given session_id is ignored
GetOrCreateSidFresh(given) == nextUuid

GetOrCreateSid(given) == IF given = None THEN nextUuid ELSE given[1]

GetOrCreateRows(given) ==
    LET sid == GetOrCreateSid(given)
    IN  IF sid \in ConvIds THEN conversations
        ELSE conversations \cup {[id |-> sid, title |-> None, created_at |-> UtcNow]}

\* DBStore.append that inserts the message row and no conversation row
AppendConvsSkip(convs, sid) == convs

\* DBStore.append on the tables (convs, msgs): the conversation row is added
\* if absent, then the message row, in one commit.
AppendConvs(convs, sid) ==
    IF sid \in {c.id : c \in convs} THEN convs
    ELSE convs \cup {[id |-> sid, title |-> None, created_at |-> UtcNow]}

\* DBStore.append that puts the new row first and renumbers nothing
AppendMsgsInFront(msgs, sid, role, content, ts) ==
    <<[id              |-> Len(msgs) + 1,
       conversation_id |-> sid,
       role            |-> role,
       content         |-> content,
       timestamp       |-> ts,
       created_at      |-> ToCreatedAt(ts)]>> \o msgs

AppendMsgs(msgs, sid, role, content, ts) ==
    Append(msgs, [id              |-> Len(msgs) + 1,
                  conversation_id |-> sid,
                  role            |-> role,
                  content         |-> content,
                  timestamp       |-> ts,
                  created_at      |-> ToCreatedAt(ts)])

\* ChatMessage(id=str(r.id), role, content, timestamp)
ChatMessage(r) == [id |-> r.id, role |-> r.role, content |-> r.content, timestamp |-> r.timestamp]

\* DBStore.history over the table msgs
HistoryRows(msgs, sid, limit) ==
    Take(SortAsc({msgs[i] : i \in {j \in 1..Len(msgs) : msgs[j].conversation_id = sid}}), limit)

HistoryOf(msgs, sid, limit) ==
    LET rows == HistoryRows(msgs, sid, limit)
    IN  [i \in 1..Len(rows) |-> ChatMessage(rows[i])]

History(sid, limit) == HistoryOf(messages, sid, limit)

DefaultHistoryLimit == 500

DefaultPageSize == 100

\* DBStore.history_grouped_by_day
PageRows(sid, before_id, page_size) ==
    LET all  == ConvRows(sid)
        kept == IF before_id # None /\ before_id[1] # 0
                THEN {r \in all : r.id < before_id[1]}
                ELSE all
    IN  Take(SortDesc(kept), page_size)

HistoryGroupedByDay(sid, before_id, page_size) ==
    LET rows == PageRows(sid, before_id, page_size)
        IsDay(d) == LET P(r) == Day(r) = d IN SelectSeq(rows, P)
    IN  [groups      |-> [d \in {Day(rows[i]) : i \in 1..Len(rows)} |-> IsDay(d)],
         next_cursor |-> IF rows # <<>> THEN Some(rows[Len(rows)].id) ELSE None]

\* DBStore.create_conversation(title): a row under a fresh uuid
CreateConversationRows(title) ==
    conversations \cup {[id |-> nextUuid, title |-> title, created_at |-> UtcNow]}

CreateConversationResult(title) ==
    [id |-> nextUuid, title |-> title, created_at |-> UtcNow]

\* (m.content or "")[:140]; every content of the model is shorter than 140
\* characters, and the slice of such a string is the string
Snippet(content) == content

\* one row of DBStore.list_conversations: last_at is the subquery's
\* max(created_at) of the conversation (NULL without messages), the snippet
\* comes from the latest message by (created_at, id)
ConvSummary(c) ==
    LET rows == SortDesc(ConvRows(c.id))
    IN  [id              |-> c.id,
         title           |-> c.title,
         created_at      |-> c.created_at,
         last_message_at |-> IF rows = <<>> THEN None ELSE Some(rows[1].created_at),
         last_snippet    |-> IF rows = <<>> THEN None ELSE Some(Snippet(rows[1].content))]

\* order_by(last_at.desc().nullslast(), Conversation.created_at.desc())
ListedBefore(a, b) ==
    \/ a.last_message_at # None /\ b.last_message_at = None
    \/ /\ a.last_message_at # None
       /\ b.last_message_at # None
       /\ \/ a.last_message_at[1] > b.last_message_at[1]
          \/ a.last_message_at[1] = b.last_message_at[1] /\ a.created_at > b.created_at
    \/ /\ a.last_message_at = None
       /\ b.last_message_at = None
       /\ a.created_at > b.created_at

\* rows that the ordering does not separate come in the order the database
\* picks
RECURSIVE SortListed(_)
SortListed(S) ==
    IF S = {} THEN <<>>
    ELSE LET m == CHOOSE x \in S : \A y \in S : ~ListedBefore(y, x)
         IN  <<m>> \o SortListed(S \ {m})

\* DBStore.list_conversations(limit)
ListConversations(limit) ==
    Take(SortListed({ConvSummary(c) : c \in conversations}), limit)

DefaultListLimit == 50

----------------------------------------------------------------------------
\* StrandsAgentEngine.generate_stream (strands_agent.py)

ExpiredCodes == {"ExpiredToken", "ExpiredTokenException"}
ErrorCodes   == ExpiredCodes \cup {"ThrottlingException"}

\* A backend event carries its "data"; "" stands for an event with no visible
\* payload (no "data" key, or empty data): `if data:` skips both.
EventData == Deltas \cup {""}

\* next((m["content"] for m in reversed(messages) if m["role"] == "user"), "")
LastUser(msgs) ==
    LET users == {i \in 1..Len(msgs) : msgs[i].role = "user"}
    IN  IF users = {} THEN ""
        ELSE msgs[CHOOSE i \in users : \A j \in users : j <= i].content

\* the retry test without its `and not tried_refresh`
RetryAllowedNoFlag(code) == code \in ExpiredCodes

\* `code in ("ExpiredToken", "ExpiredTokenException") and not tried_refresh`
RetryAllowed(code) == code \in ExpiredCodes /\ ~tried_refresh

\* generate_stream(messages, cancel) is called and reaches its while loop
GenCall(msgs) ==
    /\ gen_status'    = "running"
    /\ last_user'     = LastUser(msgs)
    /\ tried_refresh' = FALSE
    /\ attempts'      = 1
    /\ rebuilds'      = 0
    /\ attemptDeltas' = <<>>
    /\ nEvents'       = nEvents
    /\ err'           = None
    /\ retriedOn'     = None

\* The backend stream delivers an event: `if cancel.is_set(): return`, then
\* `if data: yield data`.
GenOnEvent(d) ==
    /\ gen_status = "running"
    /\ nEvents < MaxEvents
    /\ nEvents' = nEvents + 1
    /\ attemptDeltas' = IF d # "" THEN Append(attemptDeltas, d) ELSE attemptDeltas
    /\ gen_status' = IF cancel THEN "cancelled" ELSE "running"
    /\ UNCHANGED <<last_user, tried_refresh, attempts, rebuilds, err, retriedOn>>

\* a loop body that yields the data without looking at the cancel event
YieldsIgnoringCancel(d) == d # ""

\* whether GenOnEvent(d) yields d to the consumer
Yields(d) == ~cancel /\ d # ""

\* The backend stream is exhausted: `return  # finished normally`
GenOnEnd ==
    /\ gen_status = "running"
    /\ gen_status' = "done"
    /\ UNCHANGED <<last_user, tried_refresh, attempts, rebuilds, attemptDeltas, nEvents,
                   err, retriedOn>>

\* The backend stream raises a ClientError with this code
GenOnError(code) ==
    /\ gen_status = "running"
    /\ IF RetryAllowed(code)
       THEN /\ tried_refresh' = TRUE
            /\ rebuilds' = rebuilds + 1       \* self._build_agent()
            /\ attempts' = attempts + 1       \* continue: _stream_once again
            /\ attemptDeltas' = <<>>
            /\ retriedOn' = Some(code)
            /\ UNCHANGED <<gen_status, err>>
       ELSE /\ gen_status' = "raised"         \* raise
            /\ err' = Some(code)
            /\ UNCHANGED <<tried_refresh, rebuilds, attempts, attemptDeltas, retriedOn>>
    /\ UNCHANGED <<last_user, nEvents>>

----------------------------------------------------------------------------
\* ws_chat (server.py): one connection

\* Frames the client can send.  "invalid_json" is text that is not JSON,
\* "non_object" is JSON that is not an object (a list, a number, null),
\* "unknown" is an object whose "type" is none of ping, cancel, message.
ControlKinds == {"ping", "cancel", "unknown", "invalid_json", "non_object"}

ClientFrames ==
    {[kind |-> k, text |-> "", session_id |-> None] : k \in ControlKinds}
    \cup {[kind |-> "message", text |-> t, session_id |-> s] :
             t \in Texts, s \in {None, Some(0)}}

\* A frame to the client
Frame(type, body, n) == [type |-> type, body |-> body, n |-> n]

NumFrames(fs, type) == Cardinality({i \in 1..Len(fs) : fs[i].type = type})

\* time.time(): every read of the clock returns a later time than the one before
ClockReads == {now + 1}

\* The client sends a frame; it waits in the connection until ws_chat
\* awaits ws.receive_text().
ClientSend(f) ==
    /\ connected
    /\ pc # "closed"
    /\ clientSent < MaxFrames
    /\ Len(inbox) < MaxInbox
    /\ inbox' = Append(inbox, f)
    /\ clientSent' = clientSent + 1
    /\ cancelAt' = IF f.kind = "cancel" /\ pc = "stream" /\ cancelAt = None
                   THEN Some(NumFrames(streamFrames, "chunk"))
                   ELSE cancelAt
    /\ clientPingAt' = IF f.kind = "ping" THEN time ELSE clientPingAt
    /\ UNCHANGED <<storeVars, genVars, httpVars, shareVars, time, last_ping, hb_task, hbGap>>
    /\ UNCHANGED <<pc, connected, out, cancel, chunks, session_id>>
    /\ UNCHANGED <<started, ended, streamFrames, streamEnd, persisted, storeAtRecv,
                   lastFrame, errorsAtRecv, cancelAtStart>>

\* The client goes away.
ClientDisconnect ==
    /\ connected
    /\ pc # "closed"
    /\ connected' = FALSE
    /\ lostInStream' = (lostInStream \/ pc = "stream")
    /\ UNCHANGED <<storeVars, genVars, obsVars, httpVars, hbVars, userTurn, otherAppends>>
    /\ UNCHANGED <<pc, inbox, out, cancel, chunks, session_id>>

\* a receive loop that also reads the connection while a stream is in flight
ReceivingAnytime == pc \in {"recv", "stream"}

\* ws_chat is at `raw = await ws.receive_text()`: it reads the connection
\* only between streams.
Receiving == pc = "recv"

\* receive_text returns the oldest waiting frame
Received(kind) ==
    /\ Receiving
    /\ inbox # <<>>
    /\ Head(inbox).kind = kind
    /\ inbox' = Tail(inbox)
    /\ lastFrame' = Some(kind)
    /\ storeAtRecv' = messages
    /\ errorsAtRecv' = NumFrames(out, "error")

\* a finally that leaves the heartbeat task alone
NotCancelled(status) == status

\* `hb_task.cancel()` on the heartbeat task: a running task is cancelled, a
\* finished one stays as it is
Cancelled(status) == IF status = "running" THEN "cancelled" ELSE status

\* ws_chat's finally, run by the step that ends the handler:
\* hb_task.cancel() and the suppressed `await hb_task`
Finally == hb_task' = IF pc' = "closed" THEN Cancelled(hb_task) ELSE hb_task

\* await ws.send_json(f) in the receive loop, outside any try: the frame is
\* delivered, or the send raises on a dead connection and ws_chat ends.
SendOrDie(f, nextPc) ==
    IF connected
    THEN out' = Append(out, f) /\ pc' = nextPc
    ELSE out' = out /\ pc' = "closed"

\* receive_text raises WebSocketDisconnect: break
RecvDisconnect ==
    /\ Receiving
    /\ inbox = <<>>
    /\ ~connected
    /\ pc' = "closed"
    /\ lastFrame' = None
    /\ UNCHANGED <<storeVars, genVars, httpVars, time, last_ping, clientPingAt, hbGap, shareVars, inbox, connected, out, cancel, chunks, session_id>>
    /\ UNCHANGED <<clientSent, started, ended, streamFrames, streamEnd, cancelAt, persisted,
                   storeAtRecv, errorsAtRecv, cancelAtStart>>
    /\ Finally

\* json.loads raises JSONDecodeError
HandleInvalidJson ==
    /\ Received("invalid_json")
    /\ SendOrDie(Frame("error", "invalid_json", 0), "recv")
    /\ UNCHANGED <<storeVars, genVars, httpVars, time, last_ping, clientPingAt, hbGap, shareVars, connected, cancel, chunks, session_id>>
    /\ UNCHANGED <<clientSent, started, ended, streamFrames, streamEnd, cancelAt, persisted,
                   cancelAtStart>>
    /\ Finally

\* json.loads returns a list, a number, a string or None: `data.get` raises
\* AttributeError, which nothing in ws_chat catches.
HandleNonObject ==
    /\ Received("non_object")
    /\ pc' = "closed"
    /\ UNCHANGED <<storeVars, genVars, httpVars, time, last_ping, clientPingAt, hbGap, shareVars, connected, out, cancel, chunks, session_id>>
    /\ UNCHANGED <<clientSent, started, ended, streamFrames, streamEnd, cancelAt, persisted,
                   cancelAtStart>>
    /\ Finally

HandlePing ==
    /\ Received("ping")
    /\ last_ping' = time
    /\ SendOrDie(Frame("pong", "", 0), "recv")
    /\ UNCHANGED <<storeVars, genVars, httpVars, shareVars, time, clientPingAt, hbGap>>
    /\ UNCHANGED <<connected, cancel, chunks, session_id>>
    /\ UNCHANGED <<clientSent, started, ended, streamFrames, streamEnd, cancelAt, persisted,
                   cancelAtStart>>
    /\ Finally

\* the cancel handler without its `cancel = asyncio.Event()`
HandleCancelNoReplace ==
    /\ Received("cancel")
    /\ SendOrDie(Frame("cancelled", "", 0), "recv")
    /\ cancel' = TRUE
    /\ UNCHANGED <<storeVars, genVars, httpVars, time, last_ping, clientPingAt, hbGap, shareVars, connected, chunks, session_id>>
    /\ UNCHANGED <<clientSent, started, ended, streamFrames, streamEnd, cancelAt, persisted,
                   cancelAtStart>>
    /\ Finally

\* cancel.set(); send cancelled; cancel = asyncio.Event()
HandleCancel ==
    /\ Received("cancel")
    /\ SendOrDie(Frame("cancelled", "", 0), "recv")
    /\ cancel' = IF connected THEN FALSE ELSE TRUE
    /\ UNCHANGED <<storeVars, genVars, httpVars, time, last_ping, clientPingAt, hbGap, shareVars, connected, chunks, session_id>>
    /\ UNCHANGED <<clientSent, started, ended, streamFrames, streamEnd, cancelAt, persisted,
                   cancelAtStart>>
    /\ Finally

HandleUnknown ==
    /\ Received("unknown")
    /\ SendOrDie(Frame("error", "unknown_type", 0), "recv")
    /\ UNCHANGED <<storeVars, genVars, httpVars, time, last_ping, clientPingAt, hbGap, shareVars, connected, cancel, chunks, session_id>>
    /\ UNCHANGED <<clientSent, started, ended, streamFrames, streamEnd, cancelAt, persisted,
                   cancelAtStart>>
    /\ Finally

\* A message frame: get_or_create, append the user turn, send start, read
\* the history and call generate_stream.
HandleMessage ==
    /\ Received("message")
    /\ \E t \in ClockReads :
        LET f    == Head(inbox)
            sid  == GetOrCreateSid(f.session_id)
            msgs == AppendMsgs(messages, sid, "user", f.text, t)
        IN  /\ conversations' = GetOrCreateRows(f.session_id)
            /\ nextUuid' = IF f.session_id = None THEN nextUuid + 1 ELSE nextUuid
            /\ messages' = msgs
            /\ now' = t
            /\ session_id' = Some(sid)
            /\ IF connected
               THEN /\ out' = Append(out, Frame("start", "", 0))
                    /\ userTurn' = Some(msgs[Len(msgs)].id)
                    /\ pc' = "stream"
                    /\ chunks' = <<>>
                    /\ GenCall(HistoryOf(msgs, sid, DefaultHistoryLimit))
                    /\ started' = started + 1
                    /\ streamFrames' = <<Frame("start", "", 0)>>
                    /\ streamEnd' = "none"
                    /\ cancelAt' = None
                    /\ persisted' = FALSE
                    /\ cancelAtStart' = cancel
               ELSE /\ out' = out
                    /\ pc' = "closed"
                    /\ UNCHANGED <<chunks, genVars, started, streamFrames, streamEnd,
                                   cancelAt, persisted, cancelAtStart, userTurn>>
    /\ UNCHANGED <<httpVars, time, last_ping, clientPingAt, hbGap, lostInStream, otherAppends, connected, cancel, clientSent, ended>>
    /\ Finally

\* The code after the async for (lines 223-234), entered with
\* cancel.is_set() = isSet and the local chunks = chs.
AfterLoop(isSet, chs) ==
    IF ~isSet
    THEN \E t \in ClockReads :
            /\ messages' = AppendMsgs(messages, session_id[1], "assistant", Concat(chs), t)
            /\ conversations' = AppendConvs(conversations, session_id[1])
            /\ now' = t
            /\ nextUuid' = nextUuid
            /\ persisted' = TRUE
            /\ streamEnd' = "normal"
            /\ ended' = ended + 1
            /\ cancel' = FALSE
            /\ IF connected
               THEN /\ out' = Append(out, Frame("done", Concat(chs), Len(chs)))
                    /\ streamFrames' = Append(streamFrames, Frame("done", Concat(chs), Len(chs)))
                    /\ pc' = "recv"
               ELSE /\ out' = out
                    /\ streamFrames' = streamFrames
                    /\ pc' = "closed"
    ELSE /\ cancel' = FALSE                   \* cancel = asyncio.Event()
         /\ pc' = "recv"
         /\ streamEnd' = "cancelled"
         /\ ended' = ended + 1
         /\ UNCHANGED <<storeVars, out, streamFrames, persisted>>

\* The backend delivers an event to the stream in flight.
StreamEvent(d) ==
    /\ pc = "stream"
    /\ GenOnEvent(d)
    /\ IF cancel
       THEN \* generate_stream returns at its cancel check
            /\ AfterLoop(TRUE, chunks)
            /\ chunks' = chunks
       ELSE IF ~Yields(d)
       THEN UNCHANGED <<storeVars, pc, out, cancel, chunks, streamFrames, streamEnd,
                        ended, persisted>>
       ELSE IF connected
       THEN \* chunks.append(piece); send the chunk frame
            /\ chunks' = Append(chunks, d)
            /\ out' = Append(out, Frame("chunk", d, 0))
            /\ streamFrames' = Append(streamFrames, Frame("chunk", d, 0))
            /\ UNCHANGED <<storeVars, pc, cancel, streamEnd, ended, persisted>>
       ELSE \* the send raises WebSocketDisconnect: cancel.set(); break
            /\ chunks' = Append(chunks, d)
            /\ AfterLoop(TRUE, Append(chunks, d))
    /\ UNCHANGED <<httpVars, time, last_ping, clientPingAt, hbGap, shareVars, inbox, connected, session_id>>
    /\ UNCHANGED <<clientSent, started, cancelAt, storeAtRecv, lastFrame, errorsAtRecv,
                   cancelAtStart>>
    /\ Finally

\* The backend stream is exhausted.
StreamExhausted ==
    /\ pc = "stream"
    /\ GenOnEnd
    /\ AfterLoop(cancel, chunks)
    /\ UNCHANGED <<httpVars, time, last_ping, clientPingAt, hbGap, shareVars, inbox, connected, chunks, session_id>>
    /\ UNCHANGED <<clientSent, started, cancelAt, storeAtRecv, lastFrame, errorsAtRecv,
                   cancelAtStart>>
    /\ Finally

\* The backend raises: generate_stream retries or raises; what it raises
\* leaves ws_chat through its finally.
StreamError(code) ==
    /\ pc = "stream"
    /\ GenOnError(code)
    /\ IF RetryAllowed(code)
       THEN UNCHANGED <<pc, streamEnd, ended>>
       ELSE /\ pc' = "closed"
            /\ streamEnd' = "error"
            /\ ended' = ended + 1
    /\ UNCHANGED <<storeVars, httpVars, time, last_ping, clientPingAt, hbGap, shareVars, inbox, connected, out, cancel, chunks, session_id>>
    /\ UNCHANGED <<clientSent, started, streamFrames, cancelAt, persisted, storeAtRecv,
                   lastFrame, errorsAtRecv, cancelAtStart>>
    /\ Finally

\* The store raises under a message frame (the database refuses the commit
\* of store.get_or_create or store.append): its transaction is rolled back
\* and the error leaves ws_chat through its finally.
HandleMessageStoreError ==
    /\ Received("message")
    /\ pc' = "closed"
    /\ UNCHANGED <<storeVars, genVars, httpVars, time, last_ping, clientPingAt, hbGap, shareVars,
                   connected, out, cancel, chunks, session_id>>
    /\ UNCHANGED <<clientSent, started, ended, streamFrames, streamEnd, cancelAt, persisted,
                   cancelAtStart>>
    /\ Finally

NoWalk == [status |-> "idle", sid |-> 0, size |-> 0, before |-> None, visited |-> <<>>,
           pages |-> 0, requests |-> 0]

\* threads and connections that call DBStore at the same time
Callers == {1, 2}

NoReply == [op |-> "none", arg |-> None, ok |-> TRUE, found |-> FALSE, result |-> None]

\* after `await ws.accept()` and the ready frame
Init ==
    /\ conversations = {}
    /\ messages = <<>>
    /\ now = 0
    /\ nextUuid = 1
    /\ pc = "recv"
    /\ inbox = <<>>
    /\ connected = TRUE
    /\ out = <<Frame("ready", "", 0)>>
    /\ cancel = FALSE
    /\ chunks = <<>>
    /\ session_id = None
    /\ gen_status = "idle"
    /\ last_user = ""
    /\ tried_refresh = FALSE
    /\ attempts = 0
    /\ rebuilds = 0
    /\ attemptDeltas = <<>>
    /\ nEvents = 0
    /\ err = None
    /\ retriedOn = None
    /\ clientSent = 0
    /\ started = 0
    /\ ended = 0
    /\ streamFrames = <<>>
    /\ streamEnd = "none"
    /\ cancelAt = None
    /\ persisted = FALSE
    /\ storeAtRecv = <<>>
    /\ lastFrame = None
    /\ errorsAtRecv = 0
    /\ cancelAtStart = FALSE
    /\ walk = NoWalk
    /\ txn = [c \in Callers |-> None]
    /\ reply = NoReply
    /\ time = 0
    /\ last_ping = 0
    /\ hb_task = "running"
    /\ clientPingAt = 0
    /\ hbGap = None
    /\ lostInStream = FALSE
    /\ userTurn = None
    /\ otherAppends = 0

Next ==
    \/ \E f \in ClientFrames : ClientSend(f)
    \/ ClientDisconnect
    \/ RecvDisconnect
    \/ HandleInvalidJson
    \/ HandleNonObject
    \/ HandlePing
    \/ HandleCancel
    \/ HandleUnknown
    \/ HandleMessage
    \/ \E d \in EventData : StreamEvent(d)
    \/ StreamExhausted
    \/ \E code \in ErrorCodes : StreamError(code)

Spec == Init /\ [][Next]_vars

----------------------------------------------------------------------------
\* StrandsAgentEngine.generate_stream driven by any caller: the caller owns
\* the cancel event and may set it at any time.

EngineHistories ==
    { <<>>,
      <<[id |-> 1, role |-> "user", content |-> "hi", timestamp |-> 1]>>,
      <<[id |-> 1, role |-> "user", content |-> "hi", timestamp |-> 1],
        [id |-> 2, role |-> "assistant", content |-> "a", timestamp |-> 2]>> }

EngineInit ==
    /\ conversations = {}
    /\ messages = <<>>
    /\ now = 0
    /\ nextUuid = 1
    /\ pc = "engine"
    /\ inbox = <<>>
    /\ connected = TRUE
    /\ out = <<>>
    /\ cancel = FALSE
    /\ chunks = <<>>
    /\ session_id = None
    /\ gen_status = "idle"
    /\ last_user = ""
    /\ tried_refresh = FALSE
    /\ attempts = 0
    /\ rebuilds = 0
    /\ attemptDeltas = <<>>
    /\ nEvents = 0
    /\ err = None
    /\ retriedOn = None
    /\ clientSent = 0
    /\ started = 0
    /\ ended = 0
    /\ streamFrames = <<>>
    /\ streamEnd = "none"
    /\ cancelAt = None
    /\ persisted = FALSE
    /\ storeAtRecv = <<>>
    /\ lastFrame = None
    /\ errorsAtRecv = 0
    /\ cancelAtStart = FALSE
    /\ walk = NoWalk
    /\ txn = [c \in Callers |-> None]
    /\ reply = NoReply
    /\ time = 0
    /\ last_ping = 0
    /\ hb_task = "running"
    /\ clientPingAt = 0
    /\ hbGap = None
    /\ lostInStream = FALSE
    /\ userTurn = None
    /\ otherAppends = 0

\* `async for text in engine.generate_stream(chat_history, cancel_event)`;
\* chunks collects what the call yields
EngineCall(msgs, isSet) ==
    /\ pc = "engine"
    /\ gen_status # "running"
    /\ GenCall(msgs)
    /\ cancel' = isSet
    /\ chunks' = <<>>
    /\ UNCHANGED <<storeVars, obsVars, httpVars, hbVars, shareVars, pc, inbox, connected, out, session_id>>

\* the caller sets the event while the stream runs
EngineSetCancel ==
    /\ pc = "engine"
    /\ gen_status = "running"
    /\ ~cancel
    /\ cancel' = TRUE
    /\ UNCHANGED <<storeVars, genVars, obsVars, httpVars, hbVars, shareVars, pc, inbox, connected, out, chunks,
                   session_id>>

EngineEvent(d) ==
    /\ pc = "engine"
    /\ GenOnEvent(d)
    /\ chunks' = IF Yields(d) THEN Append(chunks, d) ELSE chunks
    /\ UNCHANGED <<storeVars, obsVars, httpVars, hbVars, shareVars, pc, inbox, connected, out, cancel, session_id>>

EngineExhausted ==
    /\ pc = "engine"
    /\ GenOnEnd
    /\ UNCHANGED <<storeVars, obsVars, httpVars, hbVars, shareVars, sessionVars>>

EngineError(code) ==
    /\ pc = "engine"
    /\ GenOnError(code)
    /\ UNCHANGED <<storeVars, obsVars, httpVars, hbVars, shareVars, sessionVars>>

EngineNext ==
    \/ \E msgs \in EngineHistories, isSet \in BOOLEAN : EngineCall(msgs, isSet)
    \/ EngineSetCancel
    \/ \E d \in EventData : EngineEvent(d)
    \/ EngineExhausted
    \/ \E code \in ErrorCodes : EngineError(code)

SpecEngine == EngineInit /\ [][EngineNext]_vars

----------------------------------------------------------------------------
\* DBStore driven through its API: append with any timestamps, and a client
\* of GET /history that feeds each next_cursor back as before_id.

StoreSids  == {0, 1}
StoreRoles == {"user", "assistant"}

StoreInit ==
    /\ conversations = {}
    /\ messages = <<>>
    /\ now = 0
    /\ nextUuid = 1
    /\ pc = "http"
    /\ inbox = <<>>
    /\ connected = TRUE
    /\ out = <<>>
    /\ cancel = FALSE
    /\ chunks = <<>>
    /\ session_id = None
    /\ gen_status = "idle"
    /\ last_user = ""
    /\ tried_refresh = FALSE
    /\ attempts = 0
    /\ rebuilds = 0
    /\ attemptDeltas = <<>>
    /\ nEvents = 0
    /\ err = None
    /\ retriedOn = None
    /\ clientSent = 0
    /\ started = 0
    /\ ended = 0
    /\ streamFrames = <<>>
    /\ streamEnd = "none"
    /\ cancelAt = None
    /\ persisted = FALSE
    /\ storeAtRecv = <<>>
    /\ lastFrame = None
    /\ errorsAtRecv = 0
    /\ cancelAtStart = FALSE
    /\ walk = NoWalk
    /\ txn = [c \in Callers |-> None]
    /\ reply = NoReply
    /\ time = 0
    /\ last_ping = 0
    /\ hb_task = "running"
    /\ clientPingAt = 0
    /\ hbGap = None
    /\ lostInStream = FALSE
    /\ userTurn = None
    /\ otherAppends = 0

\* DBStore.append(session_id, msg)
StoreAppend(sid, role, ts) ==
    /\ pc = "http"
    /\ walk.status = "idle"
    /\ Len(messages) < MaxMsgs
    /\ conversations' = AppendConvs(conversations, sid)
    /\ messages' = AppendMsgs(messages, sid, role, "hi", ts)
    /\ UNCHANGED <<now, nextUuid, sessionVars, genVars, obsVars, hbVars, shareVars, walk, concVars>>

\* the ids of a page, read from its groups, latest day first
RECURSIVE GroupIds(_, _)
GroupIds(groups, days) ==
    IF days = {} THEN <<>>
    ELSE LET d == CHOOSE x \in days : \A y \in days : y <= x
         IN  [i \in 1..Len(groups[d]) |-> groups[d][i].id] \o GroupIds(groups, days \ {d})

\* get_history(session_id, before_id=None, limit=size): the first page
WalkStart(sid, size) ==
    /\ pc = "http"
    /\ walk.status = "idle"
    /\ walk' = [NoWalk EXCEPT !.status = "walking", !.sid = sid, !.size = size]
    /\ UNCHANGED <<storeVars, sessionVars, genVars, obsVars, hbVars, shareVars, concVars>>

\* get_history(session_id, before_id, limit): one request; the client stops
\* at a null next_cursor
WalkPage ==
    /\ pc = "http"
    /\ walk.status = "walking"
    /\ LET res == HistoryGroupedByDay(walk.sid, walk.before, walk.size)
           ids == GroupIds(res.groups, DOMAIN res.groups)
       IN  walk' = [walk EXCEPT
                      !.visited  = @ \o ids,
                      !.pages    = IF ids # <<>> THEN @ + 1 ELSE @,
                      !.requests = @ + 1,
                      !.before   = res.next_cursor,
                      !.status   = IF res.next_cursor = None THEN "done" ELSE "walking"]
    /\ UNCHANGED <<storeVars, sessionVars, genVars, obsVars, hbVars, shareVars, concVars>>

StoreNext ==
    \/ \E sid \in StoreSids, role \in StoreRoles, ts \in Timestamps : StoreAppend(sid, role, ts)
    \/ \E sid \in StoreSids, size \in 1..MaxPage : WalkStart(sid, size)
    \/ WalkPage

SpecStore == StoreInit /\ [][StoreNext]_vars

----------------------------------------------------------------------------
\* DBStore called by several connections and request threads at once

\* the state before any call, with the control state p
InitAt(p) ==
    /\ conversations = {}
    /\ messages = <<>>
    /\ now = 0
    /\ nextUuid = 1
    /\ pc = p
    /\ inbox = <<>>
    /\ connected = TRUE
    /\ out = <<>>
    /\ cancel = FALSE
    /\ chunks = <<>>
    /\ session_id = None
    /\ gen_status = "idle"
    /\ last_user = ""
    /\ tried_refresh = FALSE
    /\ attempts = 0
    /\ rebuilds = 0
    /\ attemptDeltas = <<>>
    /\ nEvents = 0
    /\ err = None
    /\ retriedOn = None
    /\ clientSent = 0
    /\ started = 0
    /\ ended = 0
    /\ streamFrames = <<>>
    /\ streamEnd = "none"
    /\ cancelAt = None
    /\ persisted = FALSE
    /\ storeAtRecv = <<>>
    /\ lastFrame = None
    /\ errorsAtRecv = 0
    /\ cancelAtStart = FALSE
    /\ walk = NoWalk
    /\ txn = [c \in Callers |-> None]
    /\ reply = NoReply
    /\ time = 0
    /\ last_ping = 0
    /\ hb_task = "running"
    /\ clientPingAt = 0
    /\ hbGap = None
    /\ lostInStream = FALSE
    /\ userTurn = None
    /\ otherAppends = 0

ConcInit == InitAt("conc")

\* session ids a client can supply: one of its own making, or one the server
\* issued earlier
KnownSids == {0} \cup (1..(nextUuid - 1))

Titles == {None, Some("t")}

\* the conversation whose history is read while the others write
ReadSids == {0}

\* message rows that open sessions are about to insert
Pending == Cardinality({c \in Callers : txn[c] # None /\ txn[c][1].op = "append"})

ConcFrame == UNCHANGED <<now, sessionVars, genVars, obsVars, hbVars, shareVars, walk>>

\* DBStore.append up to `conv = db.get(Conversation, session_id)`: the
\* session has read the conversation row, or found none
ConcAppendBegin(c, sid) ==
    /\ pc = "conc"
    /\ txn[c] = None
    /\ Len(messages) + Pending < MaxConcMsgs
    /\ txn' = [txn EXCEPT ![c] = Some([op |-> "append", given |-> Some(sid), sid |-> sid,
                                        saw |-> sid \in ConvIds])]
    /\ reply' = [NoReply EXCEPT !.op = "begin"]
    /\ UNCHANGED <<conversations, messages, nextUuid>>
    /\ ConcFrame

\* DBStore.append from db.add(conv) to db.commit(): the conversation row (if
\* none was read) and the message row are committed in one transaction; the
\* insert of a conversation row that another session committed meanwhile
\* raises IntegrityError and the session is closed without a commit
ConcAppendCommit(c) ==
    /\ pc = "conc"
    /\ txn[c] # None
    /\ txn[c][1].op = "append"
    /\ LET t == txn[c][1]
           clash == ~t.saw /\ t.sid \in ConvIds
       IN  /\ conversations' = IF clash THEN conversations ELSE AppendConvs(conversations, t.sid)
           /\ messages' = IF clash THEN messages ELSE AppendMsgs(messages, t.sid, "user", "hi", now)
           /\ reply' = [op |-> "append", arg |-> t.given, ok |-> ~clash, found |-> t.saw,
                        result |-> None]
    /\ txn' = [txn EXCEPT ![c] = None]
    /\ UNCHANGED nextUuid
    /\ ConcFrame

\* DBStore.get_or_create up to `conv = db.get(Conversation, sid)`; it returns
\* at once when the row is there
ConcGetOrCreateBegin(c, given) ==
    /\ pc = "conc"
    /\ txn[c] = None
    /\ given = None => nextUuid <= MaxConvs
    /\ LET sid == GetOrCreateSid(given)
       IN  IF sid \in ConvIds
           THEN /\ txn' = txn
                /\ reply' = [op |-> "get_or_create", arg |-> given, ok |-> TRUE, found |-> TRUE,
                             result |-> Some(sid)]
           ELSE /\ txn' = [txn EXCEPT ![c] = Some([op |-> "get_or_create", given |-> given,
                                                     sid |-> sid, saw |-> FALSE])]
                /\ reply' = [NoReply EXCEPT !.op = "begin"]
    /\ nextUuid' = IF given = None THEN nextUuid + 1 ELSE nextUuid
    /\ UNCHANGED <<conversations, messages>>
    /\ ConcFrame

\* DBStore.get_or_create: db.add(Conversation(id=sid)); db.commit()
ConcGetOrCreateCommit(c) ==
    /\ pc = "conc"
    /\ txn[c] # None
    /\ txn[c][1].op = "get_or_create"
    /\ LET t == txn[c][1]
           clash == t.sid \in ConvIds
       IN  /\ conversations' = GetOrCreateRows(Some(t.sid))
           /\ reply' = [op |-> "get_or_create", arg |-> t.given, ok |-> ~clash, found |-> FALSE,
                        result |-> IF clash THEN None ELSE Some(t.sid)]
    /\ txn' = [txn EXCEPT ![c] = None]
    /\ UNCHANGED <<messages, nextUuid>>
    /\ ConcFrame

\* DBStore.create_conversation(title)
ConcCreateConversation(c, title) ==
    /\ pc = "conc"
    /\ txn[c] = None
    /\ nextUuid <= MaxConvs
    /\ conversations' = CreateConversationRows(title)
    /\ nextUuid' = nextUuid + 1
    /\ reply' = [op |-> "create_conversation", arg |-> title, ok |-> TRUE, found |-> FALSE,
                 result |-> Some(CreateConversationResult(title))]
    /\ UNCHANGED <<messages, txn>>
    /\ ConcFrame

\* DBStore.history(session_id)
ConcHistory(sid) ==
    /\ pc = "conc"
    /\ reply' = [op |-> "history", arg |-> Some(sid), ok |-> TRUE, found |-> FALSE,
                 result |-> Some(History(sid, DefaultHistoryLimit))]
    /\ UNCHANGED <<storeVars, txn>>
    /\ ConcFrame

\* DBStore.history_grouped_by_day(session_id, before_id=None)
ConcHistoryGroupedByDay(sid) ==
    /\ pc = "conc"
    /\ reply' = [op |-> "history_grouped_by_day", arg |-> Some(sid), ok |-> TRUE, found |-> FALSE,
                 result |-> Some(HistoryGroupedByDay(sid, None, DefaultPageSize))]
    /\ UNCHANGED <<storeVars, txn>>
    /\ ConcFrame

\* DBStore.list_conversations()
ConcListConversations ==
    /\ pc = "conc"
    /\ reply' = [op |-> "list_conversations", arg |-> None, ok |-> TRUE, found |-> FALSE,
                 result |-> Some(ListConversations(DefaultListLimit))]
    /\ UNCHANGED <<storeVars, txn>>
    /\ ConcFrame

ConcNext ==
    \/ \E c \in Callers, sid \in KnownSids : ConcAppendBegin(c, sid)
    \/ \E c \in Callers : ConcAppendCommit(c)
    \/ \E c \in Callers, given \in {None} \cup {Some(i) : i \in KnownSids} : ConcGetOrCreateBegin(c, given)
    \/ \E c \in Callers : ConcGetOrCreateCommit(c)
    \/ \E c \in Callers, title \in Titles : ConcCreateConversation(c, title)
    \/ \E sid \in ReadSids : ConcHistory(sid)
    \/ \E sid \in ReadSids : ConcHistoryGroupedByDay(sid)
    \/ ConcListConversations

SpecConc == ConcInit /\ [][ConcNext]_vars

----------------------------------------------------------------------------
\* Properties

\* C1: a cancel frame sent while a stream is in flight stops chunk emission
\* within one backend event, and the stream gets no done frame and no
\* persisted assistant message.  The cancel is given one backend event to
\* take effect: a stream that is exhausted before any further event is not
\* held against the claim.
C1_CancelStopsStream ==
    cancelAt # None =>
        /\ NumFrames(streamFrames, "chunk") <= cancelAt[1] + 1
        /\ NumFrames(streamFrames, "chunk") > cancelAt[1] =>
                (NumFrames(streamFrames, "done") = 0 /\ ~persisted)

\* start, then chunks, then one terminal frame (done or cancelled)
WellFormedStream(fs) ==
    /\ Len(fs) >= 2
    /\ fs[1].type = "start"
    /\ \A i \in 2..(Len(fs) - 1) : fs[i].type = "chunk"
    /\ fs[Len(fs)].type \in {"done", "cancelled"}

\* C2: the frames of a stream are start, chunks, then exactly one terminal
\* frame (done or cancelled), however the stream ends; stated for streams
\* whose client is still there to receive the frames.
C2_FrameOrder ==
    /\ (pc = "stream" =>
            /\ streamFrames # <<>>
            /\ streamFrames[1].type = "start"
            /\ \A i \in 2..Len(streamFrames) : streamFrames[i].type = "chunk")
    /\ (streamEnd # "none" /\ connected => WellFormedStream(streamFrames))

\* C3: the cancellation signal handed to generate_stream is unset at the
\* start of every stream, whatever frames came before.
C3_StreamStartsUncancelled == started > 0 => ~cancelAtStart

\* a stream was started after a cancel frame had been acknowledged in Ready
C3_Witness ==
    /\ pc = "stream"
    /\ NumFrames(out, "cancelled") > 0
    /\ ~cancelAtStart

\* C4: paging with next_cursor as before_id visits every message of the
\* conversation exactly once, in ceil(total/page_size) non-empty pages, and
\* ends with a null cursor, for any timestamps.
C4_PagingVisitsAll ==
    walk.status = "done" =>
        LET rows  == ConvRows(walk.sid)
            total == Cardinality(rows)
        IN  /\ Len(walk.visited) = total
            /\ \A r \in rows : \E i \in 1..Len(walk.visited) : walk.visited[i] = r.id
            /\ walk.pages = (total + walk.size - 1) \div walk.size

\* C5: history(session_id, limit) on a conversation of more than limit
\* messages returns the most recent limit messages, oldest first.
C5_HistoryKeepsNewest ==
    \A sid \in StoreSids, limit \in 1..MaxPage :
        LET all == SortAsc(ConvRows(sid))
            n   == Len(all)
        IN  n > limit =>
                History(sid, limit) = [i \in 1..limit |-> ChatMessage(all[n - limit + i])]

\* C6: after an expiry error in the first attempt and a successful second
\* attempt, generate_stream has yielded exactly the second attempt's visible
\* deltas.
C6_RetryYieldsOnce ==
    (pc = "engine" /\ gen_status = "done" /\ rebuilds = 1) => chunks = attemptDeltas

\* C7: one generate_stream call rebuilds the agent at most once and makes at
\* most two attempts; only an expiry error is retried, and an expiry error
\* propagates only when it is the second one.
C7_RetryBounded ==
    /\ rebuilds <= 1
    /\ attempts <= 2
    /\ gen_status # "idle" => attempts = rebuilds + 1
    /\ tried_refresh <=> rebuilds = 1
    /\ retriedOn # None => retriedOn[1] \in ExpiredCodes
    /\ (gen_status = "raised" /\ err[1] \in ExpiredCodes) => (rebuilds = 1 /\ attempts = 2)

\* a second expiry error has propagated after one rebuild
C7_Witness ==
    /\ gen_status = "raised"
    /\ err[1] \in ExpiredCodes
    /\ rebuilds = 1
    /\ attempts = 2

\* C8: a backend error raised by generate_stream on a live connection gives
\* the client an error frame and leaves the session in Ready.
C8_BackendErrorKeepsSession ==
    (streamEnd = "error" /\ connected /\ lastFrame = Some("message")) =>
        /\ pc = "recv"
        /\ NumFrames(out, "error") = errorsAtRecv + 1

MalformedKinds == {"invalid_json", "non_object", "unknown"}

\* C9: every malformed inbound payload gets exactly one error frame, leaves
\* the store unchanged and leaves the session in Ready.
C9_MalformedGetsError ==
    (lastFrame # None /\ lastFrame[1] \in MalformedKinds /\ connected) =>
        /\ pc = "recv"
        /\ NumFrames(out, "error") = errorsAtRecv + 1
        /\ messages = storeAtRecv

\* C10: at most one stream is in flight on the connection: a stream starts
\* only from Ready, and between two start frames the earlier stream has
\* ended with its done frame.
C10_OneStreamInFlight ==
    /\ started - ended \in {0, 1}
    /\ (pc = "stream" <=> started - ended = 1)
    /\ \A i, j \in 1..Len(out) :
          (i < j /\ out[i].type = "start" /\ out[j].type = "start") =>
              \E k \in (i + 1)..(j - 1) : out[k].type = "done"

\* a second stream is in flight after the first one ended
C10_Witness ==
    /\ started = 2
    /\ ended = 1
    /\ pc = "stream"

----------------------------------------------------------------------------
\* The store under concurrent callers

\* C11: in every reachable state of the store, under any interleaving of
\* get_or_create, append and create_conversation by several callers, the
\* conversation_id of every persisted message is the id of a persisted
\* conversation; an append commits its conversation row together with its
\* message row, or commits neither.
C11_MessagesHaveConversation ==
    /\ [](\A i \in 1..Len(messages) : messages[i].conversation_id \in ConvIds)
    /\ [][reply'.op = "append" =>
            IF reply'.ok
            THEN /\ Len(messages') = Len(messages) + 1
                 /\ messages'[Len(messages')].conversation_id = reply'.arg[1]
                 /\ reply'.arg[1] \in {c.id : c \in conversations'}
            ELSE conversations' = conversations /\ messages' = messages]_vars

\* an append lost the race for its conversation row to an append that
\* committed the row with its message
C11_Witness ==
    /\ reply.op = "append"
    /\ ~reply.ok
    /\ \E i \in 1..Len(messages) : Some(messages[i].conversation_id) = reply.arg

ReadOps == {"history", "history_grouped_by_day", "list_conversations"}

\* C12: the log is append-only.  No DBStore operation changes or removes a
\* persisted message; history, history_grouped_by_day and list_conversations
\* leave the store unchanged; a successful append adds one message (and the
\* conversation row if absent) and leaves the earlier messages as they were.
C12_AppendOnly ==
    [][/\ Len(messages') >= Len(messages)
       /\ SubSeq(messages', 1, Len(messages)) = messages
       /\ conversations \subseteq conversations'
       /\ reply'.op \in ReadOps => conversations' = conversations /\ messages' = messages
       /\ reply'.op = "append" /\ reply'.ok =>
             /\ Len(messages') = Len(messages) + 1
             /\ \A c \in conversations' \ conversations : c.id = reply'.arg[1]
       /\ reply'.op \notin {"append"} => messages' = messages]_vars

\* the three reads have run on a store that holds messages of two
\* conversations
C12_Witness ==
    /\ reply.op = "list_conversations"
    /\ Len(reply.result[1]) >= 2
    /\ Len(messages) >= 2
    /\ \E i, j \in 1..Len(messages) : messages[i].conversation_id # messages[j].conversation_id

----------------------------------------------------------------------------
\* Reading the log

\* the rows of conversation sid in insertion order
Inserted(sid) == LET P(r) == r.conversation_id = sid IN SelectSeq(messages, P)

\* the timestamps appended to conversation sid never decreased
Monotone(sid) ==
    LET rows == Inserted(sid)
    IN  \A i, j \in 1..Len(rows) : i < j => rows[i].timestamp <= rows[j].timestamp

HistoryLimits == (1..MaxPage) \cup {DefaultHistoryLimit}

LogInit == InitAt("log")

\* DBStore.append(sid, user message with timestamp ts)
LogAppend(sid, ts) ==
    /\ pc = "log"
    /\ Len(messages) < MaxMsgs
    /\ conversations' = AppendConvs(conversations, sid)
    /\ messages' = AppendMsgs(messages, sid, "user", "hi", ts)
    /\ reply' = [NoReply EXCEPT !.op = "append", !.arg = Some(sid)]
    /\ UNCHANGED <<now, nextUuid, sessionVars, genVars, obsVars, hbVars, shareVars, walk, txn>>

\* DBStore.history(sid, limit)
LogHistory(sid, limit) ==
    /\ pc = "log"
    /\ reply' = [NoReply EXCEPT !.op = "history", !.arg = Some(sid),
                                !.result = Some(History(sid, limit))]
    /\ UNCHANGED <<storeVars, sessionVars, genVars, obsVars, hbVars, shareVars, walk, txn>>

\* values of the query parameter before_id: absent, or an integer
Cursors == {None} \cup {Some(b) : b \in 0..(MaxMsgs + 1)}

\* DBStore.history_grouped_by_day(sid, before_id, page_size)
LogPage(sid, before_id, page_size) ==
    /\ pc = "log"
    /\ reply' = [NoReply EXCEPT
                   !.op = "history_grouped_by_day",
                   !.arg = Some([sid |-> sid, before_id |-> before_id, page_size |-> page_size]),
                   !.result = Some(HistoryGroupedByDay(sid, before_id, page_size))]
    /\ UNCHANGED <<storeVars, sessionVars, genVars, obsVars, hbVars, shareVars, walk, txn>>

LogNext ==
    \/ \E sid \in StoreSids, ts \in Timestamps : LogAppend(sid, ts)
    \/ \E sid \in StoreSids, limit \in HistoryLimits : LogHistory(sid, limit)
    \/ \E sid \in StoreSids, b \in Cursors, size \in 1..MaxPage : LogPage(sid, b, size)

SpecLog == LogInit /\ [][LogNext]_vars

\* C14: for every sequence of appends on one conversation, history returns
\* the messages in non-decreasing (created_at, id) order, the id breaking
\* ties of created_at; when the appended timestamps are non-decreasing the
\* returned order is the insertion order.
C14_HistoryOrdered ==
    reply.op = "history" =>
        LET h   == reply.result[1]
            sid == reply.arg[1]
        IN  /\ \A i, j \in 1..Len(h) : i < j =>
                  \/ ToCreatedAt(h[i].timestamp) < ToCreatedAt(h[j].timestamp)
                  \/ ToCreatedAt(h[i].timestamp) = ToCreatedAt(h[j].timestamp) /\ h[i].id < h[j].id
            /\ \A i \in 1..Len(h) : \E k \in 1..Len(Inserted(sid)) : h[i] = ChatMessage(Inserted(sid)[k])
            /\ Monotone(sid) =>
                  h = [i \in 1..Len(h) |-> ChatMessage(Inserted(sid)[i])]

\* three appends on one conversation with non-decreasing timestamps, two of
\* them with the same created_at, and history has returned all three
C14_Witness ==
    /\ reply.op = "history"
    /\ reply.arg = Some(0)
    /\ Len(reply.result[1]) = 3
    /\ Monotone(0)
    /\ Inserted(0)[1].timestamp < Inserted(0)[2].timestamp
    /\ Inserted(0)[1].created_at = Inserted(0)[2].created_at

\* the rows of a page, group after group, latest day first
RECURSIVE GroupRows(_, _)
GroupRows(groups, days) ==
    IF days = {} THEN <<>>
    ELSE LET d == CHOOSE x \in days : \A y \in days : y <= x
         IN  groups[d] \o GroupRows(groups, days \ {d})

\* C17: for every call of history_grouped_by_day, next_cursor is null
\* exactly when the page is empty; otherwise it is the id of the oldest
\* message of the page, and when before_id was provided it is strictly less
\* than before_id.
C17_CursorDecreases ==
    reply.op = "history_grouped_by_day" =>
        LET res  == reply.result[1]
            rows == GroupRows(res.groups, DOMAIN res.groups)
            b    == reply.arg[1].before_id
        IN  /\ res.next_cursor = None <=> rows = <<>>
            /\ rows # <<>> =>
                  /\ \E i \in 1..Len(rows) :
                        /\ res.next_cursor = Some(rows[i].id)
                        /\ \A j \in 1..Len(rows) : j # i => Older(rows[i], rows[j])
                  /\ b # None => res.next_cursor[1] < b[1]

\* C18: for every provided integer before_id, 0 included,
\* history_grouped_by_day returns at most page_size messages, each with an
\* id strictly less than before_id, newest to oldest by (created_at, id),
\* each in the group of its UTC date.
C18_PageBelowCursor ==
    reply.op = "history_grouped_by_day" /\ reply.arg[1].before_id # None =>
        LET res  == reply.result[1]
            rows == GroupRows(res.groups, DOMAIN res.groups)
            b    == reply.arg[1].before_id[1]
        IN  /\ Len(rows) <= reply.arg[1].page_size
            /\ \A i \in 1..Len(rows) : rows[i].id < b
            /\ \A i, j \in 1..Len(rows) : i < j => Older(rows[j], rows[i])
            /\ \A d \in DOMAIN res.groups : \A i \in 1..Len(res.groups[d]) : Day(res.groups[d][i]) = d

----------------------------------------------------------------------------
\* The end of a stream

\* the deltas of the chunk frames among fs, joined in the order of the frames
RECURSIVE JoinDeltas(_)
JoinDeltas(fs) ==
    IF fs = <<>> THEN ""
    ELSE (IF Head(fs).type = "chunk" THEN Head(fs).body ELSE "") \o JoinDeltas(Tail(fs))

\* index of the latest assistant row, 0 if there is none
LastAssistant ==
    LET A == {i \in 1..Len(messages) : messages[i].role = "assistant"}
    IN  IF A = {} THEN 0 ELSE CHOOSE i \in A : \A j \in A : j <= i

\* C19: when a stream is exhausted normally, the persisted assistant message
\* has as content the in-order concatenation of the deltas of all chunk
\* frames forwarded for the stream, and is appended after the user turn that
\* triggered it; the done frame, sent on a live connection after the append,
\* carries that message, its completion_tokens is the number of chunk frames,
\* and the session returns to Ready.
C19_DoneCarriesWholeMessage ==
    /\ [](streamEnd = "normal" =>
            LET k   == LastAssistant
                sid == messages[k].conversation_id
            IN  /\ persisted
                /\ k > 1
                /\ messages[k].content = JoinDeltas(streamFrames)
                /\ \E u \in 1..(k - 1) :
                      /\ messages[u].role = "user"
                      /\ messages[u].conversation_id = sid
                      /\ Older(messages[u], messages[k])
                      /\ \A j \in (u + 1)..(k - 1) : messages[j].conversation_id # sid
                /\ \A i \in 1..Len(streamFrames) : streamFrames[i].type = "done" =>
                      /\ i = Len(streamFrames)
                      /\ streamFrames[i].body = messages[k].content
                      /\ streamFrames[i].n = NumFrames(streamFrames, "chunk"))
    /\ [][streamEnd # "normal" /\ streamEnd' = "normal" =>
            /\ Len(messages') = Len(messages) + 1
            /\ SubSeq(messages', 1, Len(messages)) = messages
            /\ messages'[Len(messages')].role = "assistant"
            /\ messages'[Len(messages')].conversation_id = session_id[1]
            /\ connected =>
                  /\ pc' = "recv"
                  /\ Len(streamFrames') = Len(streamFrames) + 1
                  /\ streamFrames'[Len(streamFrames')].type = "done"
                  /\ out'[Len(out')] = streamFrames'[Len(streamFrames')]]_vars

\* a stream of two different chunks has ended with its done frame and the
\* session is Ready again
C19_Witness ==
    /\ streamEnd = "normal"
    /\ pc = "recv"
    /\ NumFrames(streamFrames, "chunk") = 2
    /\ streamFrames[2].body # streamFrames[3].body
    /\ streamFrames[Len(streamFrames)].type = "done"
    /\ streamFrames[Len(streamFrames)].n = 2

----------------------------------------------------------------------------
\* A client that goes away mid-stream

\* a step of ws_chat: the receive loop or the stream in flight moves on
ServerStep ==
    \/ RecvDisconnect
    \/ HandleInvalidJson
    \/ HandleNonObject
    \/ HandlePing
    \/ HandleCancel
    \/ HandleUnknown
    \/ HandleMessage
    \/ \E d \in EventData : StreamEvent(d)
    \/ StreamExhausted
    \/ \E code \in ErrorCodes : StreamError(code)

\* C15: if the client disconnects at any point while a stream is in flight
\* (after the start frame and before the done frame is delivered), no
\* assistant message is persisted for that stream, and the session does not
\* rest before it is Closed.
C15_DisconnectNeverPersists ==
    lostInStream =>
        /\ ~persisted
        /\ pc # "closed" => ENABLED ServerStep

----------------------------------------------------------------------------
\* The heartbeat task of ws_chat

EVENT_HEARTBEAT_SEC == 25

\* an except clause that goes round the loop again
AfterSendFailureLoops == "running"

\* `except Exception: break`: the loop is left and the task finishes
AfterSendFailure == "finished"

\* heartbeat(), one turn of its loop: `await asyncio.sleep(1)`, a second
\* later the test of last_ping, and the heartbeat frame if it is due.  A
\* send that raises ends the task.  What waits at `await ws.receive_text()` is received within
\* the second: no second passes over a frame or a disconnect that ws_chat
\* is ready to receive.
Heartbeat ==
    /\ hb_task = "running"
    /\ ~(Receiving /\ (inbox # <<>> \/ ~connected))
    /\ time < MaxTime
    /\ time' = time + 1
    /\ IF time' - last_ping > EVENT_HEARTBEAT_SEC
       THEN IF connected
            THEN /\ out' = Append(out, Frame("heartbeat", "", 0))
                 /\ hbGap' = Some(time' - clientPingAt)
                 /\ hb_task' = hb_task
            ELSE /\ hb_task' = AfterSendFailure
                 /\ UNCHANGED <<out, hbGap>>
       ELSE UNCHANGED <<out, hbGap, hb_task>>
    /\ UNCHANGED <<storeVars, genVars, obsVars, httpVars, shareVars, last_ping, clientPingAt>>
    /\ UNCHANGED <<pc, inbox, connected, cancel, chunks, session_id>>

\* frames of a client that chats and pings
HbFrames == {f \in ClientFrames : f.kind \in {"ping", "message"} /\ f.session_id = None}

HbNext ==
    \/ \E f \in HbFrames : ClientSend(f)
    \/ ClientDisconnect
    \/ RecvDisconnect
    \/ HandlePing
    \/ HandleMessage
    \/ \E d \in EventData : StreamEvent(d)
    \/ StreamExhausted
    \/ Heartbeat

SpecHb == Init /\ [][HbNext]_vars

\* C16: in every session state, a heartbeat frame is emitted at a heartbeat
\* tick only if more than 25 time units have passed since the client last
\* sent a ping (or since the connection was accepted, if it sent none); so a
\* client that sends a ping at least every 25 time units never receives a
\* heartbeat frame.
C16_HeartbeatOnlyAfterSilence ==
    hbGap # None => hbGap[1] > EVENT_HEARTBEAT_SEC

----------------------------------------------------------------------------
\* A conversation shared with other connections

OtherTexts == {"yo"}

\* the message branch up to `await ws.send_json({"type": "start", ...})`:
\* the user turn is persisted and the start frame sent; other coroutines run
\* while the send is awaited
HandleMessageStart ==
    /\ Received("message")
    /\ \E t \in ClockReads :
        LET f    == Head(inbox)
            sid  == GetOrCreateSid(f.session_id)
            msgs == AppendMsgs(messages, sid, "user", f.text, t)
        IN  /\ conversations' = GetOrCreateRows(f.session_id)
            /\ nextUuid' = IF f.session_id = None THEN nextUuid + 1 ELSE nextUuid
            /\ messages' = msgs
            /\ now' = t
            /\ session_id' = Some(sid)
            /\ IF connected
               THEN /\ out' = Append(out, Frame("start", "", 0))
                    /\ userTurn' = Some(msgs[Len(msgs)].id)
                    /\ pc' = "started"
                    /\ started' = started + 1
                    /\ streamFrames' = <<Frame("start", "", 0)>>
                    /\ streamEnd' = "none"
                    /\ cancelAt' = None
                    /\ persisted' = FALSE
               ELSE /\ out' = out
                    /\ pc' = "closed"
                    /\ UNCHANGED <<started, streamFrames, streamEnd, cancelAt, persisted, userTurn>>
    /\ UNCHANGED <<genVars, httpVars, time, last_ping, clientPingAt, hbGap, lostInStream, otherAppends>>
    /\ UNCHANGED <<connected, cancel, chunks, clientSent, ended, cancelAtStart>>
    /\ Finally

\* `hist = store.history(session_id)`, `chunks = []` and the call of
\* engine.generate_stream
ReadHistory ==
    /\ pc = "started"
    /\ pc' = "stream"
    /\ chunks' = <<>>
    /\ GenCall(History(session_id[1], DefaultHistoryLimit))
    /\ cancelAtStart' = cancel
    /\ UNCHANGED <<storeVars, httpVars, hbVars, shareVars, inbox, connected, out, cancel, session_id>>
    /\ UNCHANGED <<clientSent, started, ended, streamFrames, streamEnd, cancelAt, persisted,
                   storeAtRecv, lastFrame, errorsAtRecv>>

\* the ws_chat of another connection persists a user turn of the same
\* conversation: store.append(session_id, make_user_msg(text))
OtherAppend(text) ==
    /\ pc \in {"recv", "started", "stream"}
    /\ session_id # None
    /\ otherAppends < MaxOther
    /\ \E t \in ClockReads :
        /\ conversations' = AppendConvs(conversations, session_id[1])
        /\ messages' = AppendMsgs(messages, session_id[1], "user", text, t)
        /\ now' = t
    /\ otherAppends' = otherAppends + 1
    /\ UNCHANGED <<nextUuid, sessionVars, genVars, obsVars, httpVars, hbVars, lostInStream, userTurn>>

SharedFrames == {f \in ClientFrames : f.kind = "message"}

SharedNext ==
    \/ \E f \in SharedFrames : ClientSend(f)
    \/ ClientDisconnect
    \/ RecvDisconnect
    \/ HandleMessageStart
    \/ ReadHistory
    \/ \E text \in OtherTexts : OtherAppend(text)
    \/ \E d \in EventData : StreamEvent(d)
    \/ StreamExhausted

SpecShared == Init /\ [][SharedNext]_vars

\* C20: for every message frame, the prompt given to the backend is the text
\* of the user turn persisted for that very frame, for every conversation
\* length and also when other connections append to the same conversation.
C20_PromptIsOwnTurn ==
    userTurn # None /\ pc # "started" => last_user = messages[userTurn[1]].content

----------------------------------------------------------------------------
\* The cancel check of generate_stream

\* C21 as stated: once the cancel event is set, generate_stream yields no
\* further delta and returns normally, with no error and no retry, whether or
\* not a retry already happened.
C21_CancelEndsCall ==
    [][(pc = "engine" /\ cancel /\ gen_status = "running") =>
            /\ chunks' = chunks
            /\ gen_status' \in {"running", "cancelled", "done"}
            /\ rebuilds' = rebuilds
            /\ attempts' = attempts
            /\ err' = err]_vars

\* C21, amended: the cancel event is checked on every backend event before
\* its delta is yielded.  Once it is set generate_stream yields no further
\* delta, and at the next backend event it returns normally, with no error
\* and no retry at that event, whether or not a retry already happened.  A
\* backend error raised before that event is handled as it is without the
\* cancel event: one retry on an expired token, raised otherwise.
C21_CancelCheckedAtEvents ==
    [][(pc = "engine" /\ cancel /\ gen_status = "running") =>
            /\ chunks' = chunks
            /\ nEvents' # nEvents =>
                  /\ gen_status' = "cancelled"
                  /\ rebuilds' = rebuilds
                  /\ attempts' = attempts
                  /\ tried_refresh' = tried_refresh
                  /\ err' = err
            /\ nEvents' = nEvents =>
                  \/ gen_status' = "done"
                  \/ gen_status' = "running" /\ rebuilds' = rebuilds + 1 /\ ~tried_refresh
                  \/ gen_status' = "raised" /\ err' # None]_vars

\* the call yielded a delta, the event was set, an expired token was retried
\* and the next backend event ended the call
C21_Witness ==
    /\ pc = "engine"
    /\ cancel
    /\ gen_status = "cancelled"
    /\ rebuilds = 1
    /\ Len(chunks) = 1
    /\ nEvents = 2

----------------------------------------------------------------------------
\* The end of the heartbeat task

\* the frames of a client that sends messages and no ping
TaskFrames == {f \in ClientFrames : f.kind = "message" /\ f.session_id = None}

\* a session from accept to the return of ws_chat, with the heartbeat task
TaskNext ==
    \/ \E f \in TaskFrames : ClientSend(f)
    \/ ClientDisconnect
    \/ RecvDisconnect
    \/ HandleMessage
    \/ HandleMessageStoreError
    \/ \E d \in EventData : StreamEvent(d)
    \/ StreamExhausted
    \/ \E code \in ErrorCodes : StreamError(code)
    \/ Heartbeat

SpecTask == Init /\ [][TaskNext]_vars

\* `await hb_task`: what awaiting a task in this state gives
AwaitHb(status) == IF status = "cancelled" THEN "CancelledError" ELSE "returns"

\* contextlib.suppress(asyncio.CancelledError, Exception)
Suppressed == {"CancelledError", "Exception"}

\* the finally of ws_chat has run without raising
FinallyQuiet == AwaitHb(hb_task) \in Suppressed \cup {"returns"}

Heartbeats(fs) == NumFrames(fs, "heartbeat")

\* C22: a failure of the heartbeat task's send ends only the heartbeat task:
\* the task finishes and emits no further heartbeat frame; the receive loop,
\* the session's state and a stream in flight are as they were and go on;
\* the later teardown of the session does not raise because of the finished
\* task.
C22_SendFailureEndsOnlyHeartbeat ==
    /\ [][(hb_task = "running" /\ time' # time /\ ~connected
             /\ time' - last_ping > EVENT_HEARTBEAT_SEC) =>
            /\ hb_task' = "finished"
            /\ UNCHANGED <<storeVars, sessionVars, genVars, obsVars>>]_vars
    /\ [][hb_task = "finished" =>
            /\ hb_task' = "finished"
            /\ Heartbeats(out') = Heartbeats(out)]_vars
    /\ [](hb_task = "finished" /\ pc # "closed" => ENABLED ServerStep)
    /\ [](hb_task = "finished" /\ pc = "closed" => AwaitHb(hb_task) = "returns" /\ FinallyQuiet)

\* the heartbeat send failed on a dead socket during a stream; the stream
\* went on to its end, its message was persisted, and the session is Closed
C22_Witness ==
    /\ hb_task = "finished"
    /\ pc = "closed"
    /\ streamEnd = "normal"
    /\ persisted
    /\ ~connected

\* C23: on every path by which a session ends, the heartbeat task is
\* cancelled and has terminated before the session handler returns, and no
\* heartbeat frame is emitted once the session is Closed.
C23_HeartbeatStoppedAtClose ==
    /\ [](pc = "closed" => hb_task \in {"cancelled", "finished"} /\ FinallyQuiet)
    /\ [][pc' = "closed" /\ pc # "closed" => hb_task' = Cancelled(hb_task)]_vars
    /\ [][pc = "closed" => out' = out /\ hb_task' = hb_task]_vars

\* a backend error ended the session on a live connection, after the
\* heartbeat task had sent a heartbeat frame; the task is cancelled
C23_Witness ==
    /\ pc = "closed"
    /\ connected
    /\ streamEnd = "error"
    /\ hb_task = "cancelled"
    /\ Heartbeats(out) >= 1
    /\ time < MaxTime

====
